---------------------------- MODULE Spec2Model ----------------------------
(***************************************************************************)
(* Voxel space carving (src/main.py): form_initial_voxels, carve,          *)
(* get_voxel_bounds and the sequential carving loop of __main__.           *)
(*                                                                         *)
(* Numbers.  The program computes in IEEE-754 binary floating point with   *)
(* round-to-nearest-even.  A float is represented here by the integer      *)
(* number of quanta 2^-QuantumBits it holds, and every arithmetic result   *)
(* is rounded to Prec significant bits (binary64 has 53; TLC's integers    *)
(* are 32 bits wide, so the significand is kept short).  Small integers,   *)
(* which the carving inputs below are made of, are exact in both.          *)
(***************************************************************************)
EXTENDS Integers, Sequences, FiniteSets

VARIABLES
    build,                  \* how this build casts inf/NaN to int32
    cameras,                \* the camera list (main.py:175)
    input,                  \* the collection object first handed to carve
    voxels,                 \* the name `voxels` of the running function
    voxel_size,             \* edge length returned by form_initial_voxels
    ci,                     \* position of the `for c in cameras` loop
    pc,                     \* position in the running function
    xlim, ylim, zlim,       \* the three [min, max] intervals
    num_voxels,             \* desired voxel count
    estimate_better_bounds, \* flag of get_voxel_bounds
    raised,                 \* the exception that ended the call, or "none"
    removed                 \* history: voxels carved away so far

vars == <<build, cameras, input, voxels, voxel_size, ci, pc, xlim, ylim, zlim,
          num_voxels, estimate_better_bounds, raised, removed>>

---------------------------------------------------------------------------
(* Bounds of the model *)

QuantumBits == 6
Prec == 5
MaxLen == 2
MaxCams == 2
MaxVoxels == 2

Unit == 2 ^ QuantumBits

---------------------------------------------------------------------------
(* binary floating point, round to nearest, ties to even *)

Abs(n) == IF n < 0 THEN -n ELSE n

\* spacing of the representable values around magnitude m (in quanta):
\* magnitudes below 2^Prec quanta are all representable
RECURSIVE Ulp(_)
Ulp(m) == IF m < 2 ^ Prec THEN 1 ELSE 2 * Ulp(m \div 2)

\* the float nearest to the rational num/den (den > 0), in quanta
FRound(num, den) ==
    LET a == Abs(num)
        u == Ulp(a \div den)
        g == u * den
        q == a \div g
        r == a - q * g
        m == IF 2 * r > g \/ (2 * r = g /\ q % 2 = 1) THEN q + 1 ELSE q
    IN  IF num < 0 THEN -(m * u) ELSE m * u

FromInt(k) == FRound(k * Unit, 1)
Fadd(a, b) == FRound(a + b, 1)
Fsub(a, b) == FRound(a - b, 1)
Fmul(a, b) == FRound(a * b, Unit)
Fdiv(a, b) == IF b > 0 THEN FRound(a * Unit, b) ELSE FRound(-(a * Unit), -b)

\* largest integer c with c^k <= m  (k = 2, 3), found bit by bit from bit b
RECURSIVE IRootFrom(_, _, _, _)
IRootFrom(m, k, c, b) ==
    IF b = 0 THEN c
    ELSE LET t == c + b
             fits == IF k = 2 THEN t <= m \div t ELSE t <= (m \div t) \div t
         IN  IRootFrom(m, k, IF fits THEN t ELSE c, b \div 2)

\* the float nearest to the k-th root of v (v >= 0 in quanta)
FRoot(v, k) ==
    LET m  == IF k = 2 THEN v * Unit ELSE v * Unit * Unit
        c  == IRootFrom(m, k, 0, 2 ^ 15)
        u  == Ulp(c)
        lo == (c \div u) * u
        t  == 2 * lo + u            \* twice the midpoint of lo and lo + u
        tk == IF k = 2 THEN t * t ELSE t * t * t
        mk == IF k = 2 THEN 4 * m ELSE 8 * m
        up == tk < mk \/ (tk = mk /\ (lo \div u) % 2 = 1)
    IN  IF up THEN lo + u ELSE lo

Fsqrt(v) == FRoot(v, 2)
Fcbrt(v) == FRoot(v, 3)

\* math.ceil of a float, as an integer
Ceil(x) == IF x >= 0 THEN (x + Unit - 1) \div Unit ELSE -((-x) \div Unit)

Int32Max == 2147483647
Int32Min == -Int32Max - 1

\* np.array(..., dtype=np.int32) of a finite float: truncation toward zero
ToInt32(x) == IF x < 0 THEN -((-x) \div Unit) ELSE x \div Unit

\* the cast of +inf, -inf or NaN (num/0) to int32 is undefined in C: x86
\* gives INT_MIN for all three, AArch64 saturates and gives 0 for NaN
CastNonFinite(num) ==
    IF build = "x86" THEN Int32Min
    ELSE IF num > 0 THEN Int32Max ELSE IF num < 0 THEN Int32Min ELSE 0

---------------------------------------------------------------------------
(* carve (main.py:130-152) *)

\* np.append(voxel, 1.0)
Homogeneous(voxel) == voxel \o <<FromInt(1)>>

\* one row of np.dot(camera.P, h)
Dot4(row, h) ==
    Fadd(Fadd(Fadd(Fmul(row[1], h[1]), Fmul(row[2], h[2])),
              Fmul(row[3], h[3])), Fmul(row[4], h[4]))

\* np.dot(camera.P, np.append(voxel, 1.0))
Project(P, voxel) ==
    LET h == Homogeneous(voxel)
    IN  <<Dot4(P[1], h), Dot4(P[2], h), Dot4(P[3], h)>>

\* one component of np.array((proj / proj[-1])[:2], dtype=np.int32)
PixelIndex(num, w) ==
    IF w = 0 THEN CastNonFinite(num) ELSE ToInt32(Fdiv(num, w))

\* voxel_projection_2d = <<column, row>>
Pixel(P, voxel) ==
    LET proj == Project(P, voxel)
    IN  <<PixelIndex(proj[1], proj[3]), PixelIndex(proj[2], proj[3])>>

\* camera.silhouette.shape
Height(silhouette) == Len(silhouette)
Width(silhouette) == Len(silhouette[1])

\* camera.silhouette[row, col], indices from 0
SilAt(silhouette, row, col) == silhouette[row + 1][col + 1]

\* the test of lines 147-149, `and` evaluated left to right
Retain_GtZero(px, silhouette) ==
    /\ px[1] > 0
    /\ px[1] < Width(silhouette)
    /\ px[2] > 0
    /\ px[2] < Height(silhouette)
    /\ SilAt(silhouette, px[2], px[1]) > 0

Retain(px, silhouette) ==
    /\ px[1] >= 0
    /\ px[1] < Width(silhouette)
    /\ px[2] >= 0
    /\ px[2] < Height(silhouette)
    /\ SilAt(silhouette, px[2], px[1]) > 0

RECURSIVE carve_loop(_, _, _, _)
carve_loop(vs, camera, i, carved_voxels) ==
    IF i > Len(vs) THEN carved_voxels
    ELSE LET voxel == vs[i]
             voxel_projection_2d == Pixel(camera.P, voxel)
         IN  carve_loop(vs, camera, i + 1,
                 IF Retain(voxel_projection_2d, camera.silhouette)
                 THEN Append(carved_voxels, voxel)
                 ELSE carved_voxels)

\* mutants of carve: every retained voxel appended twice; the last voxel of
\* the input never visited; the voxel after a rejected one skipped
RECURSIVE carve_twice(_, _)
carve_twice(vs, camera) ==
    IF vs = <<>> THEN <<>>
    ELSE (IF Retain(Pixel(camera.P, Head(vs)), camera.silhouette)
          THEN <<Head(vs), Head(vs)>> ELSE <<>>) \o carve_twice(Tail(vs), camera)

carve_droplast(vs, camera) ==
    IF vs = <<>> THEN <<>>
    ELSE carve_loop(SubSeq(vs, 1, Len(vs) - 1), camera, 1, <<>>)

RECURSIVE carve_skip(_, _)
carve_skip(vs, camera) ==
    IF vs = <<>> THEN <<>>
    ELSE IF Retain(Pixel(camera.P, Head(vs)), camera.silhouette)
         THEN <<Head(vs)>> \o carve_skip(Tail(vs), camera)
         ELSE IF Len(vs) = 1 THEN <<>>
              ELSE <<vs[2]>> \o carve_skip(Tail(Tail(vs)), camera)

carve(vs, camera) == carve_loop(vs, camera, 1, <<>>)

\* number of array dimensions of np.array(carved_voxels): an empty list
\* gives a one-dimensional array of shape (0,)
Ndim(vs) == IF Len(vs) = 0 THEN 1 ELSE 2

---------------------------------------------------------------------------
(* form_initial_voxels (main.py:42-56) *)

\* np.arange(start, stop, step): ceil((stop - start) / step) values, the
\* first two start and start + step, the i-th start + i * delta with delta
\* the difference of the first two
arange(start, stop, step) ==
    LET length == Ceil(Fdiv(Fsub(stop, start), step))
        next   == Fadd(start, step)
        delta  == Fsub(next, start)
    IN  [i \in 1..(IF length > 0 THEN length ELSE 0) |->
            IF i = 1 THEN start
            ELSE IF i = 2 THEN next
            ELSE Fadd(start, Fmul(FromInt(i - 1), delta))]

\* the three nested loops: x outer, y middle, z inner
Lattice(xs, ys, zs) ==
    [k \in 1..(Len(xs) * Len(ys) * Len(zs)) |->
        << xs[((k - 1) \div (Len(ys) * Len(zs))) + 1],
           ys[(((k - 1) \div Len(zs)) % Len(ys)) + 1],
           zs[((k - 1) % Len(zs)) + 1] >>]

form_initial_voxels(xl, yl, zl, n) ==
    LET voxel_grid_vol == Fmul(Fmul(Fsub(xl[2], xl[1]), Fsub(yl[2], yl[1])),
                               Fsub(zl[2], zl[1]))
        voxel_vol      == Fdiv(voxel_grid_vol, FromInt(n))
        voxel_side_len == Fcbrt(voxel_vol)
    IN  [voxels |-> Lattice(arange(xl[1], xl[2], voxel_side_len),
                            arange(yl[1], yl[2], voxel_side_len),
                            arange(zl[1], zl[2], voxel_side_len)),
         voxel_size |-> voxel_side_len]

---------------------------------------------------------------------------
(* get_voxel_bounds (main.py:85-114) *)

MinOf(S) == CHOOSE m \in S : \A x \in S : m <= x
MaxOf(S) == CHOOSE m \in S : \A x \in S : m >= x

diff(x) == Fsub(x[2], x[1])

\* camera_positions[:, k]
Column(rows, k) == {rows[i][k] : i \in 1..Len(rows)}

\* c.get_camera_direction(): the unit viewing direction derived from R
get_camera_direction(c) == c.direction

\* lines 93-96
RECURSIVE widen_zlim(_, _, _, _)
widen_zlim(cams, i, camera_range, zl) ==
    IF i > Len(cams) THEN zl
    ELSE LET vz == Fsub(cams[i].T[3],
                        Fmul(camera_range, get_camera_direction(cams[i])[3]))
         IN  widen_zlim(cams, i + 1, camera_range,
                        << IF vz < zl[1] THEN vz ELSE zl[1],
                           IF vz > zl[2] THEN vz ELSE zl[2] >>)

\* lines 99-100: lim + diff(lim) / 4 * [1, -1]
move_in(lim) ==
    LET q == Fdiv(diff(lim), FromInt(4))
    IN  <<Fadd(lim[1], q), Fadd(lim[2], -q)>>

\* lines 86-100
heuristic_bounds(cams) ==
    LET camera_positions == [i \in 1..Len(cams) |-> cams[i].T]
        xl == <<MinOf(Column(camera_positions, 1)), MaxOf(Column(camera_positions, 1))>>
        yl == <<MinOf(Column(camera_positions, 2)), MaxOf(Column(camera_positions, 2))>>
        zl == <<MinOf(Column(camera_positions, 3)), MaxOf(Column(camera_positions, 3))>>
        camera_range == Fmul(FRound(6 * Unit, 10),
                             Fsqrt(Fadd(Fmul(diff(xl), diff(xl)),
                                        Fmul(diff(yl), diff(yl)))))
    IN  [xlim |-> move_in(xl), ylim |-> move_in(yl),
         zlim |-> widen_zlim(cams, 1, camera_range, zl)]

\* lines 107-109: [voxels[:, k].min() - voxel_size, voxels[:, k].max() + voxel_size]
padded(vs, k, size) ==
    <<Fsub(MinOf(Column(vs, k)), size), Fadd(MaxOf(Column(vs, k)), size)>>

---------------------------------------------------------------------------
(* Inputs: cameras (main.py:174-175) and voxel collections *)

F3(a, b, c) == <<FromInt(a), FromInt(b), FromInt(c)>>
F4(a, b, c, d) == <<FromInt(a), FromInt(b), FromInt(c), FromInt(d)>>

\* parallel projection onto the x-y plane: pixel (x, y), depth term 1
CamA == [P |-> <<F4(1, 0, 0, 0), F4(0, 1, 0, 0), F4(0, 0, 0, 1)>>,
         K |-> "K_A", R |-> "R_A", image |-> "image_A",
         T |-> F3(-2, -2, 0),
         direction |-> <<0, 0, -FRound(Unit, 2)>>,
         silhouette |-> << <<1, 1, 0>>, <<0, 1, 1>> >>]

\* perspective projection along z: pixel (x/z, y/z), depth term z
CamB == [P |-> <<F4(1, 0, 0, 0), F4(0, 1, 0, 0), F4(0, 0, 1, 0)>>,
         K |-> "K_B", R |-> "R_B", image |-> "image_B",
         T |-> F3(2, 2, 0),
         direction |-> <<0, 0, FRound(Unit, 4)>>,
         silhouette |-> << <<1, 1, 1>>, <<1, 1, 1>> >>]

\* a view in which the object is not seen: the silhouette is all false
CamC == [P |-> <<F4(1, 0, 0, 1), F4(0, 1, 0, 1), F4(0, 0, 0, 1)>>,
         K |-> "K_C", R |-> "R_C", image |-> "image_C",
         T |-> F3(0, 4, 1),
         direction |-> <<0, 0, -FRound(Unit, 2)>>,
         silhouette |-> << <<0, 0, 0>>, <<0, 0, 0>> >>]

Catalogue == {CamA, CamB, CamC}

SeqsUpTo(S, n) == UNION {[1..k -> S] : k \in 0..n}

\* the camera lists: one camera per frame, no frame twice
CameraLists == {cs \in SeqsUpTo(Catalogue, MaxCams) :
                   cs # <<>> /\ \A i, j \in DOMAIN cs : cs[i] = cs[j] => i = j}

\* voxels at pixel (0,0), left of, right of, above and below the image,
\* behind the camera, on the plane of zero depth, and at fractional pixels
Points == { F3(0, 0, 1), F3(-1, 0, 1), F3(3, 0, 1), F3(0, 2, 1), F3(2, 0, 1),
            F3(-1, -1, -1), F3(0, 0, 0), F3(1, -1, 2) }

VoxelCollections == SeqsUpTo(Points, MaxLen)

\* [min, max] intervals with decimal endpoints, as the float nearest to each
Endpoints == {FromInt(-1), FromInt(0), FRound(3 * Unit, 10), FromInt(1),
              FRound(13 * Unit, 10)}

Intervals == {<<a, b>> \in Endpoints \X Endpoints : a < b}

Range(f) == {f[i] : i \in DOMAIN f}

---------------------------------------------------------------------------
(* The carving loop of __main__ (main.py:203-211) *)

InitMain ==
    /\ build \in {"x86", "aarch64"}
    /\ cameras \in CameraLists
    /\ input \in VoxelCollections
    /\ voxels = input
    /\ voxel_size = 0
    /\ ci = 0
    /\ pc = "first"
    /\ xlim = <<0, 0>> /\ ylim = <<0, 0>> /\ zlim = <<0, 0>>
    /\ num_voxels = 0
    /\ estimate_better_bounds = FALSE
    /\ raised = "none"
    /\ removed = {}

\* voxels = carve(voxels, c), with the history of removed voxels
CarveWith(c) ==
    /\ voxels' = carve(voxels, c)
    /\ removed' = removed \cup (Range(voxels) \ Range(voxels'))

\* mutant of FirstCarve: the survivors are written back into the collection
\* that was passed in
FirstCarve_InPlace ==
    /\ pc = "first"
    /\ CarveWith(cameras[1])
    /\ input' = voxels'
    /\ ci' = 1
    /\ pc' = "loop"
    /\ UNCHANGED <<build, cameras, voxel_size, xlim, ylim, zlim,
                   num_voxels, estimate_better_bounds, raised>>

\* line 204: voxels = carve(voxels, cameras[0])
FirstCarve ==
    /\ pc = "first"
    /\ CarveWith(cameras[1])
    /\ ci' = 1
    /\ pc' = "loop"
    /\ UNCHANGED <<build, cameras, input, voxel_size, xlim, ylim, zlim,
                   num_voxels, estimate_better_bounds, raised>>

\* lines 209-210: for c in cameras: voxels = carve(voxels, c)
LoopCarve ==
    /\ pc = "loop"
    /\ ci <= Len(cameras)
    /\ CarveWith(cameras[ci])
    /\ ci' = ci + 1
    /\ UNCHANGED <<build, cameras, input, voxel_size, pc, xlim, ylim, zlim,
                   num_voxels, estimate_better_bounds, raised>>

\* line 211: the loop is over
LoopDone ==
    /\ pc = "loop"
    /\ ci > Len(cameras)
    /\ pc' = "done"
    /\ UNCHANGED <<build, cameras, input, voxels, voxel_size, ci, xlim, ylim,
                   zlim, num_voxels, estimate_better_bounds, raised, removed>>

---------------------------------------------------------------------------
(* get_voxel_bounds, step by step *)

\* the bounding prism has a positive span on every axis
ValidCameras(cams) ==
    LET b == heuristic_bounds(cams)
    IN  diff(b.xlim) > 0 /\ diff(b.ylim) > 0 /\ diff(b.zlim) > 0

InitBounds ==
    /\ build \in {"x86", "aarch64"}
    /\ cameras \in {cs \in CameraLists : ValidCameras(cs)}
    /\ input = <<>>
    /\ voxels = <<>>
    /\ voxel_size = 0
    /\ ci = 0
    /\ pc = "bounds"
    /\ xlim = <<0, 0>> /\ ylim = <<0, 0>> /\ zlim = <<0, 0>>
    /\ num_voxels \in 1..MaxVoxels
    /\ estimate_better_bounds \in BOOLEAN
    /\ raised = "none"
    /\ removed = {}

\* lines 86-100
HeuristicBounds ==
    /\ pc = "bounds"
    /\ LET b == heuristic_bounds(cameras)
       IN  xlim' = b.xlim /\ ylim' = b.ylim /\ zlim' = b.zlim
    /\ pc' = IF estimate_better_bounds THEN "coarse_grid" ELSE "return"
    /\ UNCHANGED <<build, cameras, input, voxels, voxel_size, ci, num_voxels,
                   estimate_better_bounds, raised, removed>>

\* line 103
CoarseGrid ==
    /\ pc = "coarse_grid"
    /\ LET g == form_initial_voxels(xlim, ylim, zlim, num_voxels)
       IN  voxels' = g.voxels /\ voxel_size' = g.voxel_size
    /\ ci' = 1
    /\ pc' = "coarse_loop"
    /\ UNCHANGED <<build, cameras, input, xlim, ylim, zlim, num_voxels,
                   estimate_better_bounds, raised, removed>>

\* lines 104-105
CoarseCarve ==
    /\ pc = "coarse_loop"
    /\ ci <= Len(cameras)
    /\ CarveWith(cameras[ci])
    /\ ci' = ci + 1
    /\ UNCHANGED <<build, cameras, input, voxel_size, pc, xlim, ylim, zlim,
                   num_voxels, estimate_better_bounds, raised>>

\* lines 107-109: voxels[:, 0] of a one-dimensional array raises IndexError
TightBounds ==
    /\ pc = "coarse_loop"
    /\ ci > Len(cameras)
    /\ IF Ndim(voxels) < 2
       THEN /\ raised' = "IndexError"
            /\ pc' = "raised"
            /\ UNCHANGED <<xlim, ylim, zlim>>
       ELSE /\ xlim' = padded(voxels, 1, voxel_size)
            /\ ylim' = padded(voxels, 2, voxel_size)
            /\ zlim' = padded(voxels, 3, voxel_size)
            /\ pc' = "return"
            /\ UNCHANGED raised
    /\ UNCHANGED <<build, cameras, input, voxels, voxel_size, ci, num_voxels,
                   estimate_better_bounds, removed>>

\* lines 111-114
ReturnBounds ==
    /\ pc = "return"
    /\ pc' = "returned"
    /\ UNCHANGED <<build, cameras, input, voxels, voxel_size, ci, xlim, ylim,
                   zlim, num_voxels, estimate_better_bounds, raised, removed>>

Init == InitMain \/ InitBounds

Next ==
    \/ FirstCarve
    \/ LoopCarve
    \/ LoopDone
    \/ HeuristicBounds
    \/ CoarseGrid
    \/ CoarseCarve
    \/ TightBounds
    \/ ReturnBounds

Spec == Init /\ [][Next]_vars

---------------------------------------------------------------------------
(* form_initial_voxels called on its own (main.py:199, 201) *)

InitGrid ==
    /\ build = "x86"
    /\ cameras = <<>>
    /\ input = <<>>
    /\ voxels = <<>>
    /\ voxel_size = 0
    /\ ci = 0
    /\ pc = "grid"
    /\ xlim \in Intervals /\ ylim \in Intervals /\ zlim \in Intervals
    /\ num_voxels \in 1..MaxVoxels
    /\ estimate_better_bounds = FALSE
    /\ raised = "none"
    /\ removed = {}

FormInitialVoxels ==
    /\ pc = "grid"
    /\ LET g == form_initial_voxels(xlim, ylim, zlim, num_voxels)
       IN  voxels' = g.voxels /\ voxel_size' = g.voxel_size
    /\ pc' = "grid_done"
    /\ UNCHANGED <<build, cameras, input, ci, xlim, ylim, zlim, num_voxels,
                   estimate_better_bounds, raised, removed>>

NextGrid == FormInitialVoxels

SpecGrid == InitGrid /\ [][NextGrid]_vars

---------------------------------------------------------------------------
(* What the claims are stated with: exact arithmetic, independent of the    *)
(* floating-point operators above                                           *)

Count(p, vs) == Cardinality({i \in DOMAIN vs : vs[i] = p})

\* integer quotient rounded toward zero
TruncDiv(a, b) ==
    IF (a < 0) = (b < 0) THEN Abs(a) \div Abs(b) ELSE -(Abs(a) \div Abs(b))

\* row . (x, y, z, 1), exactly (in quanta squared)
ExactDot(row, v) == row[1] * v[1] + row[2] * v[2] + row[3] * v[3] + row[4] * Unit

\* the homogeneous depth term of a voxel
Depth(camera, v) == ExactDot(camera.P[3], v)

\* the pixel index the claims speak of: the exact quotient truncated; where
\* the depth term is zero, whatever the build's cast of the quotient gives
ExactIndex(num, w) == IF w = 0 THEN CastNonFinite(num) ELSE TruncDiv(num, w)

ExactCol(camera, v) == ExactIndex(ExactDot(camera.P[1], v), Depth(camera, v))
ExactRow(camera, v) == ExactIndex(ExactDot(camera.P[2], v), Depth(camera, v))

InFrame(camera, v) ==
    /\ 0 <= ExactCol(camera, v) /\ ExactCol(camera, v) < Width(camera.silhouette)
    /\ 0 <= ExactRow(camera, v) /\ ExactRow(camera, v) < Height(camera.silhouette)

InsideSilhouette(camera, v) ==
    /\ InFrame(camera, v)
    /\ camera.silhouette[ExactRow(camera, v) + 1][ExactCol(camera, v) + 1] # 0

AllPixels(camera, value) ==
    \A r \in DOMAIN camera.silhouette :
        \A c \in DOMAIN camera.silhouette[r] : camera.silhouette[r][c] = value

RECURSIVE Filter(_, _)
Filter(vs, camera) ==
    IF vs = <<>> THEN <<>>
    ELSE (IF InsideSilhouette(camera, Head(vs)) THEN <<Head(vs)>> ELSE <<>>)
         \o Filter(Tail(vs), camera)

\* carve applied for each camera of a list in turn
RECURSIVE CarveAll(_, _)
CarveAll(vs, cams) ==
    IF cams = <<>> THEN vs ELSE CarveAll(carve(vs, Head(cams)), Tail(cams))

Permutations(cams) ==
    { [i \in DOMAIN cams |-> cams[f[i]]] :
        f \in {g \in [DOMAIN cams -> DOMAIN cams] : Range(g) = DOMAIN cams} }

\* the first carve of the driver has just returned
AfterFirstCarve == pc = "loop" /\ ci = 1

\* the camera of the carve that returned last in the driver's loop
LastCamera == IF ci = 1 THEN cameras[1] ELSE cameras[ci - 1]

\* the half-open lattice lo, lo + s, lo + 2s, ... < hi, exactly
ExactAxis(lo, hi, s) == [k \in 1..((hi - lo + s - 1) \div s) |-> lo + (k - 1) * s]

---------------------------------------------------------------------------
(* The claims *)

\* C1: carve(V, c) returns only voxels of V, none more often than it occurs
\* in V.
C1_CarveReturnsMembers ==
    AfterFirstCarve =>
        \A p \in Range(voxels) \cup Range(input) : Count(p, voxels) <= Count(p, input)

C1_Witness ==
    AfterFirstCarve /\ Len(input) = 2 /\ Len(voxels) = 1

\* C2: carve keeps a voxel iff its truncated pixel indices lie within
\* [0,W) x [0,H) and the silhouette is nonzero there; an all-false silhouette
\* leaves nothing, an all-true one exactly the voxels in the frame.
C2_KeepsIffInsideSilhouette ==
    AfterFirstCarve =>
        /\ voxels = Filter(input, cameras[1])
        /\ AllPixels(cameras[1], 0) => voxels = <<>>
        /\ AllPixels(cameras[1], 1) =>
              \A i \in DOMAIN input :
                  input[i] \in Range(voxels) <=> InFrame(cameras[1], input[i])

C2_Witness ==
    /\ AfterFirstCarve
    /\ input = <<F3(0, 0, 1), F3(-1, 0, 1)>>
    /\ voxels = <<F3(0, 0, 1)>>

\* C3: carving against two cameras in either order, and against a list of
\* cameras in any permutation, leaves the same set of voxels.
C3_OrderOfCamerasIrrelevant ==
    pc = "done" =>
        /\ \A q \in Permutations(cameras) :
              Range(voxels) = Range(CarveAll(input, q))
        /\ \A i, j \in DOMAIN cameras :
              i < j =>
                  Range(carve(carve(input, cameras[i]), cameras[j]))
                      = Range(carve(carve(input, cameras[j]), cameras[i]))

C3_Witness ==
    /\ pc = "done"
    /\ Len(cameras) >= 2
    /\ Range(carve(input, cameras[1])) # Range(carve(input, cameras[2]))
    /\ voxels # <<>>
    /\ Len(voxels) < Len(input)

\* C4: carving again with the same camera changes nothing, so the driver's
\* extra carve against cameras[0] does not change the final result.
C4_CarveIdempotent ==
    /\ pc = "loop" => carve(voxels, LastCamera) = voxels
    /\ pc = "done" => voxels = CarveAll(input, cameras)

C4_Witness ==
    /\ pc = "done"
    /\ voxels # <<>>
    /\ Len(voxels) < Len(input)

\* a step taken inside a carving loop leaves a subset, no larger, free of
\* every voxel removed so far
ShrinkStep ==
    pc \in {"first", "loop", "coarse_loop"} =>
        /\ Range(voxels') \subseteq Range(voxels)
        /\ Len(voxels') <= Len(voxels)
        /\ removed' \cap Range(voxels') = {}

\* C5: every step of a sequential carving loop leaves a subset of the set
\* before it, no larger, and no voxel removed earlier is in it.
C5_MonotonicShrink ==
    [][ShrinkStep]_vars

C5_Witness ==
    /\ pc = "loop"
    /\ ci = Len(cameras) + 1
    /\ ci >= 3
    /\ removed # {}
    /\ voxels # <<>>

\* C6: when the coarse carve removes every voxel, get_voxel_bounds fails
\* with an explicit empty-result error and returns no bounds.
C6_EmptyCoarseCarveIsExplicitError ==
    (estimate_better_bounds /\ pc \in {"raised", "return", "returned"}
        /\ voxels = <<>>) =>
        /\ pc = "raised"
        /\ raised = "EmptyResultError"

\* C7: form_initial_voxels returns the Cartesian product of the half-open
\* axis lattices min + k*s < max, x outer, y middle, z inner: as many voxels
\* as the three lattices have points, the k-th voxel at the k-th point of the
\* product (to within half an edge, so that the rounding of a coordinate is
\* not counted against the claim), the corner (xmin, ymin, zmin) among them,
\* and no coordinate equal to or beyond an axis maximum.
C7_GridIsHalfOpenLattice ==
    pc = "grid_done" =>
        LET exact == Lattice(ExactAxis(xlim[1], xlim[2], voxel_size),
                             ExactAxis(ylim[1], ylim[2], voxel_size),
                             ExactAxis(zlim[1], zlim[2], voxel_size))
        IN  /\ Len(voxels) = Len(exact)
            /\ \A k \in DOMAIN voxels \cap DOMAIN exact :
                  \A a \in 1..3 :
                      2 * Abs(voxels[k][a] - exact[k][a]) <= voxel_size
            /\ <<xlim[1], ylim[1], zlim[1]>> \in Range(voxels)
            /\ \A v \in Range(voxels) :
                  v[1] < xlim[2] /\ v[2] < ylim[2] /\ v[3] < zlim[2]

\* C8: the voxel count n and edge s satisfy
\* dx*dy*dz <= n * s^3 < (dx+s)*(dy+s)*(dz+s).
C8_VolumeWithinOneLayer ==
    pc = "grid_done" =>
        LET dx == xlim[2] - xlim[1]
            dy == ylim[2] - ylim[1]
            dz == zlim[2] - zlim[1]
            s  == voxel_size
            filled == Len(voxels) * s * s * s
        IN  /\ filled >= dx * dy * dz
            /\ filled < (dx + s) * (dy + s) * (dz + s)

\* C9: carve leaves the collection it is given and the camera unchanged, and
\* get_voxel_bounds leaves every camera unchanged.
C9_InputsUnchanged ==
    [][cameras' = cameras /\ input' = input]_vars

C9_Witness ==
    /\ pc = "done"
    /\ Len(cameras) = 2
    /\ Len(input) = 2
    /\ voxels = <<>>

\* C10: a voxel whose homogeneous depth term is negative is discarded,
\* whatever the silhouette.
C10_BehindCameraDiscarded ==
    AfterFirstCarve =>
        \A v \in Range(input) :
            Depth(cameras[1], v) < 0 => v \notin Range(voxels)

===========================================================================
